---- MODULE Spec2Model ----
(***************************************************************************)
(* Interrupt-driven I/O of the hello-ra4m1 firmware: the GPT320 timer tick *)
(* flag, the SCI1 UART driver with its two bbqueue byte queues and four    *)
(* interrupt handlers (src/uart/src/main.rs), the timer handler and main   *)
(* loop of the LED program (src/gpt_timer/src/main.rs), and the LED loop   *)
(* of the program without interrupts (src/pac/src/main.rs).                *)
(*                                                                         *)
(* Execution model: every interrupt handler runs to completion (all        *)
(* sources keep the reset NVIC priority, so handlers never nest) and is    *)
(* one action; the main flow is cut into steps at every point where a      *)
(* handler can preempt it and see or change shared state.  Peripheral      *)
(* events (a byte arriving, the transmit data register emptying, a timer   *)
(* overflow, a line error) are separate actions that set the interrupt     *)
(* controller's pending bit IELSRn.IR; a handler runs while its bit is     *)
(* pending.  A Rust panic (panic_probe) halts the firmware for good.       *)
(***************************************************************************)
EXTENDS Integers, Sequences, FiniteSets, TLC

\* ------------------------------------------------------------------ bounds
\* wire bytes and timer overflows of the mixed-traffic runs
MaxRx == 2
MaxOvf == 2
\* line errors of a run
MaxErr == 1
\* timer overflows of the runs that keep the poll bookkeeping
MaxTicks == 3
\* wire bytes beyond the queue capacity in the receive-flood runs
RxExtra == 1
\* wire bytes already received when a receive-flood run starts
RxPreFill == 56
\* timer overflows (drains) of the receive-flood runs
RxFloodOvf == 1
\* timer overflows (sends) of the transmit-backlog runs
TxFloodOvf == 6
\* wire bytes already received when a receive wrap-around run starts, and the
\* timer overflows (drains) of such a run
RxWrapPre == 62
RxWrapOvf == 2
\* timer overflows (sends) of the runs checked for progress
LiveTicks == 2
\* timer overflows (LED frames) of the gpt_timer runs: the palette wraps
LedTicks == 8

\* --------------------------------------------------------------- constants
QUEUE_SIZE == 64
\* capacity of the heapless::String the temperature is formatted into
FMT_CAP == 20
\* minimum field width of the "{:>8.04}" format
FMT_WIDTH == 8
\* RAINBOW_TABLE.len()
PALETTE_LEN == 7

RXI == 6
TXI == 7
TEI == 8
ERI == 9
OVF == 10
IELS == {RXI, TXI, TEI, ERI, OVF}

Min(a, b) == IF a < b THEN a ELSE b

\* ------------------------------------------------- bbqueue (Jerk<64>) model
\* The queue's coordination words and its inline storage.
EmptyQueue ==
  [write |-> 0, read |-> 0, last |-> QUEUE_SIZE, reserve |-> 0,
   wip |-> FALSE, rip |-> FALSE, buf |-> [i \in 0..(QUEUE_SIZE - 1) |-> 0]]

\* a grant_exact that hands out the region at the write index without
\* looking at the free space
GrantExactNoCheck(q, sz) ==
  [ok |-> TRUE, start |-> IF q.write + sz <= QUEUE_SIZE THEN q.write ELSE 0,
   q |-> [q EXCEPT !.reserve = (IF q.write + sz <= QUEUE_SIZE THEN q.write ELSE 0) + sz,
                   !.wip = TRUE]]

\* grant_exact(sz): a contiguous region of exactly sz bytes, or an error.
GrantExact(q, sz) ==
  IF q.wip THEN [ok |-> FALSE, start |-> 0, q |-> q]
  ELSE LET already_inverted == q.write < q.read
           start == IF already_inverted
                    THEN (IF q.write + sz < q.read THEN q.write ELSE -1)
                    ELSE IF q.write + sz <= QUEUE_SIZE THEN q.write
                    ELSE IF sz < q.read THEN 0 ELSE -1
       IN IF start < 0 THEN [ok |-> FALSE, start |-> 0, q |-> q]
          ELSE [ok |-> TRUE, start |-> start,
                q |-> [q EXCEPT !.reserve = start + sz, !.wip = TRUE]]

\* the granted region filled with bytes (wgrant[..].copy_from_slice)
Fill(q, start, bytes) ==
  [q EXCEPT !.buf = [i \in 0..(QUEUE_SIZE - 1) |->
                       IF i >= start /\ i < start + Len(bytes)
                       THEN bytes[i - start + 1] ELSE q.buf[i]]]

\* a commit that leaves the write grant marked as in progress
CommitKeepsGrant(q, len, used) ==
  IF ~q.wip THEN q
  ELSE LET new_write == q.reserve - (len - Min(len, used))
           last == IF new_write < q.write /\ q.write # QUEUE_SIZE THEN q.write
                   ELSE IF new_write > q.last THEN QUEUE_SIZE
                   ELSE q.last
       IN [q EXCEPT !.reserve = new_write, !.last = last, !.write = new_write]

\* GrantW::commit(used) of a grant of len bytes
Commit(q, len, used) ==
  IF ~q.wip THEN q
  ELSE LET new_write == q.reserve - (len - Min(len, used))
           last == IF new_write < q.write /\ q.write # QUEUE_SIZE THEN q.write
                   ELSE IF new_write > q.last THEN QUEUE_SIZE
                   ELSE q.last
       IN [q EXCEPT !.reserve = new_write, !.last = last,
                    !.write = new_write, !.wip = FALSE]

\* read(): the contiguous readable region, or an error when there is none
Read(q) ==
  IF q.rip THEN [ok |-> FALSE, start |-> 0, len |-> 0, q |-> q]
  ELSE LET read == IF q.read = q.last /\ q.write < q.read THEN 0 ELSE q.read
           sz == (IF q.write < read THEN q.last ELSE q.write) - read
       IN IF sz = 0
          THEN [ok |-> FALSE, start |-> 0, len |-> 0, q |-> [q EXCEPT !.read = read]]
          ELSE [ok |-> TRUE, start |-> read, len |-> sz,
                q |-> [q EXCEPT !.read = read, !.rip = TRUE]]

\* a release that frees one byte more than asked
ReleaseOneMore(q, len, used) ==
  IF ~q.rip THEN q
  ELSE [q EXCEPT !.read = q.read + Min(len, used) + 1, !.rip = FALSE]

\* GrantR::release(used) of a read grant of len bytes
Release(q, len, used) ==
  IF ~q.rip THEN q
  ELSE [q EXCEPT !.read = q.read + Min(len, used), !.rip = FALSE]

\* the bytes of a read grant, last one first
SliceReversed(q, start, len) == [i \in 1..len |-> q.buf[start + len - i]]

\* the bytes of a read grant
Slice(q, start, len) == [i \in 1..len |-> q.buf[start + i - 1]]

\* the words and storage only the producer of a queue writes, and the words
\* only its consumer writes
ProducerSide(q) == <<q.write, q.reserve, q.last, q.wip, q.buf>>
ConsumerSide(q) == <<q.read, q.rip>>

\* the committed, unreleased bytes, oldest first
Pending(q) ==
  IF q.write >= q.read THEN Slice(q, q.read, q.write - q.read)
  ELSE Slice(q, q.read, q.last - q.read) \o Slice(q, 0, q.write)

\* number of committed, unreleased bytes
Count(q) ==
  IF q.write >= q.read THEN q.write - q.read
  ELSE (q.last - q.read) + q.write

\* ------------------------------------------------ temperature formatting
\* Temperatures read_tsn can return, in ten-thousandths of a degree.
Temps == {235000, -12448630}

RECURSIVE Digits(_)
\* the decimal digits of n as ASCII codes
Digits(n) == IF n < 10 THEN <<48 + n>> ELSE Digits(n \div 10) \o <<48 + (n % 10)>>

RECURSIVE PadLeft(_, _)
\* s right-aligned in a field of at least w characters
PadLeft(s, w) == IF Len(s) >= w THEN s ELSE PadLeft(<<32>> \o s, w)

\* format!("{:>8.04} C", t): sign, integer part, '.', four decimals, padded to
\* eight characters, then " C"
Format(t) ==
  LET abs == IF t < 0 THEN -t ELSE t
      frac == abs % 10000
      num == (IF t < 0 THEN <<45>> ELSE <<>>) \o Digits(abs \div 10000) \o <<46>>
             \o <<48 + (frac \div 1000), 48 + ((frac \div 100) % 10),
                  48 + ((frac \div 10) % 10), 48 + (frac % 10)>>
  IN PadLeft(num, FMT_WIDTH) \o <<32, 67>>

CRLF == <<13, 10>>

\* the bytes uart_println copies into its grant
WithCrLf(input) == input \o CRLF

\* bytes of the UTF-8 encoding of (u as char)
Utf8Len(u) == IF u < 128 THEN 1 ELSE 2

RECURSIVE TextLen(_)
\* length in bytes of the text collected from the bytes of a read grant
TextLen(bytes) ==
  IF bytes = <<>> THEN 0 ELSE Utf8Len(Head(bytes)) + TextLen(Tail(bytes))

\* ------------------------------------------------------------- environment
\* A run's load: how many wire bytes, timer overflows and line errors the
\* peripherals produce, the temperatures read, whether the peer talks while
\* the firmware transmits (full duplex) or only while the transmitter is off,
\* and whether the run keeps the poll bookkeeping (history only: it never
\* influences the program).  pre is the number of wire bytes that have
\* already arrived, one receive interrupt each, before the first timer
\* overflow, when the run starts.
Loads ==
  { [prog |-> "uart", rx |-> MaxRx, ovf |-> MaxOvf, err |-> 0,
     temps |-> {235000}, duplex |-> TRUE, book |-> FALSE, pre |-> 0],
    [prog |-> "uart", rx |-> 0, ovf |-> MaxErr, err |-> MaxErr,
     temps |-> {235000}, duplex |-> TRUE, book |-> FALSE, pre |-> 0],
    [prog |-> "uart", rx |-> 0, ovf |-> MaxTicks, err |-> 0,
     temps |-> {235000}, duplex |-> TRUE, book |-> TRUE, pre |-> 0],
    [prog |-> "gpt_timer", rx |-> 0, ovf |-> LedTicks, err |-> 0,
     temps |-> {}, duplex |-> TRUE, book |-> TRUE, pre |-> 0],
    [prog |-> "uart", rx |-> QUEUE_SIZE + RxExtra, ovf |-> RxFloodOvf, err |-> 0,
     temps |-> {235000}, duplex |-> FALSE, book |-> FALSE, pre |-> RxPreFill],
    [prog |-> "uart", rx |-> QUEUE_SIZE + RxExtra, ovf |-> RxWrapOvf, err |-> 0,
     temps |-> {235000}, duplex |-> FALSE, book |-> FALSE, pre |-> RxWrapPre],
    [prog |-> "uart", rx |-> 0, ovf |-> TxFloodOvf, err |-> 0,
     temps |-> {235000}, duplex |-> TRUE, book |-> FALSE, pre |-> 0],
    [prog |-> "uart", rx |-> 0, ovf |-> TxFloodOvf, err |-> 0,
     temps |-> {-12448630}, duplex |-> TRUE, book |-> FALSE, pre |-> 0],
    [prog |-> "pac", rx |-> 0, ovf |-> 0, err |-> 0,
     temps |-> {}, duplex |-> TRUE, book |-> FALSE, pre |-> 0] }

\* the k-th byte on the receive line (k counts from 0)
RxWire(k) == 32 + (k % 95)

\* the first n bytes of the receive line
WireBytes(n) == [i \in 1..n |-> RxWire(i - 1)]

\* RXD_QUEUE after n receive interrupts and no drain, n <= QUEUE_SIZE
Received(n) ==
  [EmptyQueue EXCEPT !.write = n, !.reserve = n,
                     !.buf = [i \in 0..(QUEUE_SIZE - 1) |->
                                IF i < n THEN RxWire(i) ELSE 0]]

\* ------------------------------------------------------------------- state
VARIABLES
  load,       \* the run's load (never changes)
  rxq, txq,   \* RXD_QUEUE, TXD_QUEUE
  scr,        \* SCI1.SCR: rie, tie, teie, re, te
  ssr,        \* SCI1.SSR error flags: per, fer, orer
  rdr,        \* SCI1.RDR
  tdr,        \* every byte written to SCI1.TDR, in order
  ir,         \* ICU.IELSRn.IR, n in 6..10
  tcfpo,      \* GPT320.GTST.TCFPO
  flag,       \* GPT320_TIMER_OVERFLOW_FLAG
  pc,         \* where the main flow is
  msg,        \* uart main: the formatted text of this tick
  scrR,       \* uart_println: the SCR value read by modify()
  rgr,        \* uart main: the read grant of the drain step
  halted,     \* "no", or the function that panicked
  reported,   \* SSR values logged by the error handler, each with the driver
              \* state the handler ran in (history)
  counter,    \* gpt_timer, pac main: palette index
  pulses,     \* ws2812b_write: the pulses of the current LED frame
  podr,       \* level of the LED line (PORT1.PODR bit)
  value,      \* ws2812b_write: the colour being written
  strip,      \* LED line history: latched = a reset was completed and no
              \* pulse followed it yet, written = a pulse has been emitted
  \* history
  rxWire,     \* bytes that arrived on the receive line
  rxPushed,   \* bytes committed to the RX queue
  rxSeen,     \* bytes the main loop's drains observed and released
  txPushed,   \* bytes committed to the TX queue
  ovfs,       \* timer overflows so far
  errs,       \* line errors so far
  tick,       \* poll bookkeeping
  scen        \* bookkeeping of one send and the interrupts after it

vars == <<load, rxq, txq, scr, ssr, rdr, tdr, ir, tcfpo, flag, pc, msg, scrR, rgr,
          halted, reported, counter, pulses, podr, value, strip,
          rxWire, rxPushed, rxSeen, txPushed, ovfs, errs, tick, scen>>

queueVars == <<rxq, txq, rdr, tdr, rxWire, rxPushed, rxSeen, txPushed>>
mainVars == <<pc, msg, scrR, rgr>>
ledVars == <<counter, pulses, podr, value, strip>>
timerVars == <<tcfpo, flag, ovfs, tick>>

\* SCR after scr().reset() at the start of sci_module_init
ScrReset == [rie |-> 0, tie |-> 0, teie |-> 0, re |-> 0, te |-> 0]

\* SCR after sci_module_init: reception on, transmission off
ScrInit == [rie |-> 1, tie |-> 0, teie |-> 0, re |-> 1, te |-> 0]
SsrClear == [per |-> 0, fer |-> 0, orer |-> 0]
NoGrant == [start |-> 0, len |-> 0]
NoScen == [on |-> FALSE, n |-> 0, txi |-> 0, tei |-> 0]

Black == [r |-> 0, g |-> 0, b |-> 0]

\* where main starts in a run: uart at sci_module_init (or, in a run that
\* starts with bytes already received, at the top of the main loop),
\* gpt_timer and pac at their first ws2812b_reset
StartPc(l) ==
  IF l.prog = "uart" THEN (IF l.pre = 0 THEN "sci_init" ELSE "poll")
  ELSE "led_reset"

\* The state of main before the step StartPc names.
Init ==
  /\ load \in Loads
  /\ rxq = Received(load.pre) /\ txq = EmptyQueue
  /\ scr = (IF StartPc(load) = "sci_init" THEN ScrReset ELSE ScrInit)
  /\ ssr = SsrClear
  /\ rdr = (IF load.pre = 0 THEN 0 ELSE RxWire(load.pre - 1)) /\ tdr = <<>>
  /\ ir = [n \in IELS |-> FALSE]
  /\ tcfpo = FALSE /\ flag = FALSE
  /\ pc = StartPc(load) /\ msg = <<>> /\ scrR = ScrInit /\ rgr = NoGrant
  /\ halted = "no" /\ reported = <<>>
  /\ counter = 0 /\ pulses = <<>> /\ podr = 0
  /\ value = Black /\ strip = [latched |-> FALSE, written |-> FALSE]
  /\ rxWire = load.pre /\ rxPushed = WireBytes(load.pre)
  /\ rxSeen = <<>> /\ txPushed = <<>>
  /\ ovfs = 0 /\ errs = 0
  /\ tick = [sincePoll |-> 0, handled |-> 0, groups |-> 0, truePolls |-> 0,
             polled |-> FALSE, ret |-> FALSE, saw |-> 0]
  /\ scen = NoScen

Running == halted = "no"
Uart == load.prog = "uart"
Gpt == load.prog = "gpt_timer"
Pac == load.prog = "pac"

\* ------------------------------------------------------- peripheral events
\* GPT320 overflows: the status bit is set and the event reaches the ICU.
TimerOverflow ==
  /\ Running /\ ovfs < load.ovf
  /\ pc # "sci_init"
  /\ tcfpo' = TRUE
  /\ ir' = [ir EXCEPT ![OVF] = TRUE]
  /\ ovfs' = ovfs + 1
  /\ UNCHANGED <<load, queueVars, scr, ssr, flag, mainVars, halted, reported,
                 ledVars, errs, tick, scen>>

\* A byte has been received into RDR (the previous one has been read).
RxArrive ==
  /\ Running /\ Uart /\ rxWire < load.rx
  /\ scr.re = 1 /\ scr.rie = 1 /\ ~ir[RXI]
  /\ load.duplex \/ scr.te = 0
  /\ rdr' = RxWire(rxWire)
  /\ rxWire' = rxWire + 1
  /\ ir' = [ir EXCEPT ![RXI] = TRUE]
  /\ UNCHANGED <<load, rxq, txq, tdr, rxPushed, rxSeen, txPushed, scr, ssr,
                 timerVars, mainVars, halted, reported, ledVars, errs, scen>>

\* TDR is empty while transmission and its interrupt are enabled.
TxiRaise ==
  /\ Running /\ Uart
  /\ scr.te = 1 /\ scr.tie = 1 /\ ~ir[TXI]
  /\ ir' = [ir EXCEPT ![TXI] = TRUE]
  /\ UNCHANGED <<load, queueVars, scr, ssr, timerVars, mainVars, halted, reported,
                 ledVars, errs, scen>>

\* The last bit has left the shift register while TEIE is set.
TeiRaise ==
  /\ Running /\ Uart
  /\ scr.te = 1 /\ scr.teie = 1 /\ ~ir[TEI]
  /\ ir' = [ir EXCEPT ![TEI] = TRUE]
  /\ UNCHANGED <<load, queueVars, scr, ssr, timerVars, mainVars, halted, reported,
                 ledVars, errs, scen>>

ErrorKinds ==
  { [per |-> a, fer |-> b, orer |-> c] : a, b, c \in {0, 1} } \ {SsrClear}

\* A parity, framing or overrun error is latched in SSR.
LineError ==
  /\ Running /\ Uart /\ errs < load.err
  /\ scr.re = 1 /\ scr.rie = 1
  /\ \E e \in ErrorKinds :
       ssr' = [per |-> IF e.per = 1 THEN 1 ELSE ssr.per,
               fer |-> IF e.fer = 1 THEN 1 ELSE ssr.fer,
               orer |-> IF e.orer = 1 THEN 1 ELSE ssr.orer]
  /\ ir' = [ir EXCEPT ![ERI] = TRUE]
  /\ errs' = errs + 1
  /\ UNCHANGED <<load, queueVars, scr, timerVars, mainVars, halted, reported,
                 ledVars, scen>>

\* ------------------------------------------------------------ timer handler
\* bookkeeping of a handled overflow
Handled(t) ==
  IF ~load.book THEN t ELSE
  [t EXCEPT !.sincePoll = @ + 1, !.handled = @ + 1,
            !.groups = IF t.sincePoll = 0 THEN @ + 1 ELSE @]

\* uart IEL10 that clears the hardware bits and forgets the flag
UartIEL10NoFlag ==
  /\ Running /\ Uart /\ ir[OVF]
  /\ IF tcfpo
     THEN /\ tcfpo' = FALSE
          /\ tick' = Handled(tick)
          /\ UNCHANGED flag
     ELSE UNCHANGED <<flag, tcfpo, tick>>
  /\ ir' = [ir EXCEPT ![OVF] = FALSE]
  /\ UNCHANGED <<load, queueVars, scr, ssr, ovfs, mainVars, halted, reported,
                 ledVars, errs, scen>>

\* uart: fn IEL10()
UartIEL10 ==
  /\ Running /\ Uart /\ ir[OVF]
  /\ IF tcfpo
     THEN /\ flag' = TRUE
          /\ tcfpo' = FALSE
          /\ tick' = Handled(tick)
     ELSE UNCHANGED <<flag, tcfpo, tick>>
  /\ ir' = [ir EXCEPT ![OVF] = FALSE]
  /\ UNCHANGED <<load, queueVars, scr, ssr, ovfs, mainVars, halted, reported,
                 ledVars, errs, scen>>

\* gpt_timer IEL10 that leaves the overflow status bit set
GptIEL10KeepStatus ==
  /\ Running /\ Gpt /\ ir[OVF]
  /\ IF tcfpo
     THEN /\ flag' = TRUE
          /\ ir' = [ir EXCEPT ![OVF] = FALSE]
          /\ tick' = Handled(tick)
          /\ UNCHANGED tcfpo
     ELSE UNCHANGED <<flag, tcfpo, ir, tick>>
  /\ UNCHANGED <<load, queueVars, scr, ssr, ovfs, mainVars, halted, reported,
                 ledVars, errs, scen>>

\* gpt_timer: fn IEL10(); the pending bit is cleared inside the if
GptIEL10 ==
  /\ Running /\ Gpt /\ ir[OVF]
  /\ IF tcfpo
     THEN /\ flag' = TRUE
          /\ tcfpo' = FALSE
          /\ ir' = [ir EXCEPT ![OVF] = FALSE]
          /\ tick' = Handled(tick)
     ELSE UNCHANGED <<flag, tcfpo, ir, tick>>
  /\ UNCHANGED <<load, queueVars, scr, ssr, ovfs, mainVars, halted, reported,
                 ledVars, errs, scen>>

\* a poll that reads the flag and leaves it set
PollNoClear(f) == [ret |-> f, flag |-> f]

\* critical_section::with(|cs| FLAG.borrow(cs).replace(false))
PollAndClear(f) == [ret |-> f, flag |-> FALSE]

\* GPT320_TIMER_OVERFLOW_FLAG.swap(false, SeqCst)
Swap(f) == [ret |-> f, flag |-> FALSE]

\* bookkeeping of a poll that returned ret
Polled(t, ret) ==
  IF ~load.book THEN t ELSE
  [t EXCEPT !.polled = TRUE, !.ret = ret, !.saw = t.sincePoll, !.sincePoll = 0,
            !.truePolls = IF ret THEN @ + 1 ELSE @]

\* ------------------------------------------------------------ UART handlers
\* fn IEL6(): push the received byte; grant_exact(1).unwrap() panics on Err
IEL6 ==
  /\ Running /\ Uart /\ ir[RXI]
  /\ LET g == GrantExact(rxq, 1)
     IN IF g.ok
        THEN /\ rxq' = Commit(Fill(g.q, g.start, <<rdr>>), 1, 1)
             /\ rxPushed' = Append(rxPushed, rdr)
             /\ ir' = [ir EXCEPT ![RXI] = FALSE]
             /\ UNCHANGED halted
        ELSE /\ halted' = "IEL6"
             /\ UNCHANGED <<rxq, rxPushed, ir>>
  /\ UNCHANGED <<load, txq, rdr, tdr, rxWire, rxSeen, txPushed, scr, ssr,
                 timerVars, mainVars, reported, ledVars, errs, scen>>

\* the SCR write of IEL7 after a byte, switching the interrupt off
ScrTxiNextStops(r) == [r EXCEPT !.tie = 0, !.teie = 0]

\* IEL7, a byte was written: scr.modify(tie = 1, teie = 0)
ScrTxiNext(r) == [r EXCEPT !.tie = 1, !.teie = 0]

\* the SCR write of IEL7 on an empty queue that does not enable TEIE
ScrTxiEmptyNoTeie(r) == [r EXCEPT !.tie = 0]

\* the SCR write of IEL7 on an empty queue, leaving TIE as it was
ScrTxiEmptyKeepTie(r) == [r EXCEPT !.teie = 1]

\* IEL7, the queue was empty: scr.modify(tie = 0, teie = 1)
ScrTxiEmpty(r) == [r EXCEPT !.tie = 0, !.teie = 1]

\* the SCR write of IEL8 that leaves TEIE set
ScrTeiKeepTeie(r) == [r EXCEPT !.tie = 0, !.te = 0]

\* the SCR write of IEL8 that also switches the receiver off
ScrTeiStopsRx(r) == [r EXCEPT !.tie = 0, !.teie = 0, !.te = 0, !.re = 0]

\* IEL8: scr.modify(tie = 0, teie = 0, te = 0)
ScrTei(r) == [r EXCEPT !.tie = 0, !.teie = 0, !.te = 0]

\* the SCR write of uart_println that leaves TEIE as it was read
ScrSendKeepTeie(r) == [r EXCEPT !.tie = 1, !.te = 1]

\* the SCR write of uart_println that leaves TE as it was read
ScrSendKeepTe(r) == [r EXCEPT !.tie = 1, !.teie = 0]

\* uart_println: scr.modify(tie = 1, teie = 0, te = 1) applied to the value read
ScrSend(r) == [r EXCEPT !.tie = 1, !.teie = 0, !.te = 1]

\* fn IEL7(): send the next byte of the TX queue, or switch to TEI
IEL7 ==
  /\ Running /\ Uart /\ ir[TXI]
  /\ LET r == Read(txq)
     IN IF r.ok
        THEN /\ tdr' = Append(tdr, r.q.buf[r.start])
             /\ txq' = Release(r.q, r.len, 1)
             /\ scr' = ScrTxiNext(scr)
        ELSE /\ txq' = r.q
             /\ scr' = ScrTxiEmpty(scr)
             /\ UNCHANGED tdr
  /\ ir' = [ir EXCEPT ![TXI] = FALSE]
  /\ scen' = IF ~scen.on THEN scen
             ELSE IF scr.tie = 1 /\ scen.tei = 0
                  THEN [scen EXCEPT !.txi = @ + 1]
                  ELSE NoScen
  /\ UNCHANGED <<load, rxq, rdr, rxWire, rxPushed, rxSeen, txPushed, ssr,
                 timerVars, mainVars, halted, reported, ledVars, errs>>

\* an IEL8 that clears the pending flag of the transmit-data-empty source
\* instead of its own
IEL8ClearsTxi ==
  /\ Running /\ Uart /\ ir[TEI]
  /\ scr' = ScrTei(scr)
  /\ ir' = [ir EXCEPT ![TXI] = FALSE]
  /\ scen' = IF ~scen.on THEN scen
             ELSE IF scr.teie = 1 THEN [scen EXCEPT !.tei = @ + 1]
                  ELSE NoScen
  /\ UNCHANGED <<load, queueVars, ssr, timerVars, mainVars, halted, reported,
                 ledVars, errs>>

\* fn IEL8(): transmission complete, back to reception only
IEL8 ==
  /\ Running /\ Uart /\ ir[TEI]
  /\ scr' = ScrTei(scr)
  /\ ir' = [ir EXCEPT ![TEI] = FALSE]
  /\ scen' = IF ~scen.on THEN scen
             ELSE IF scr.teie = 1 THEN [scen EXCEPT !.tei = @ + 1]
                  ELSE NoScen
  /\ UNCHANGED <<load, queueVars, ssr, timerVars, mainVars, halted, reported,
                 ledVars, errs>>

\* the driver state an SCR value stands for
DriverState(r) ==
  IF r.tie = 0 /\ r.teie = 0 THEN "ReceiveOnly"
  ELSE IF r.tie = 1 /\ r.teie = 0 THEN "Transmitting"
  ELSE IF r.tie = 0 /\ r.teie = 1 THEN "DrainingLastByte"
  ELSE "invalid"

\* an error handler that also switches the transmitter off
IEL9StopsTx ==
  /\ Running /\ Uart /\ ir[ERI]
  /\ reported' = Append(reported, [ssr |-> ssr, state |-> DriverState(scr)])
  /\ ssr' = SsrClear
  /\ scr' = [scr EXCEPT !.tie = 0, !.te = 0]
  /\ ir' = [ir EXCEPT ![ERI] = FALSE]
  /\ UNCHANGED <<load, queueVars, timerVars, mainVars, halted, ledVars, errs, scen>>

\* fn IEL9(): log SSR, clear PER, FER and ORER
IEL9 ==
  /\ Running /\ Uart /\ ir[ERI]
  /\ reported' = Append(reported, [ssr |-> ssr, state |-> DriverState(scr)])
  /\ ssr' = [ssr EXCEPT !.per = 0, !.fer = 0, !.orer = 0]
  /\ ir' = [ir EXCEPT ![ERI] = FALSE]
  /\ UNCHANGED <<load, queueVars, scr, timerVars, mainVars, halted, ledVars,
                 errs, scen>>

\* ----------------------------------------------------------- uart main loop
\* a sci_module_init that leaves the transmit side switched on
SciModuleInitTxOn ==
  /\ Running /\ Uart /\ pc = "sci_init"
  /\ ssr' = [ssr EXCEPT !.per = 0, !.fer = 0, !.orer = 0]
  /\ scr' = [scr EXCEPT !.rie = 1, !.tie = 1, !.teie = 0, !.re = 1, !.te = 1]
  /\ pc' = "poll"
  /\ UNCHANGED <<load, queueVars, ir, timerVars, msg, scrR, rgr, halted,
                 reported, ledVars, errs, scen>>

\* sci_module_init: the error flags cleared, then SCR set for reception with
\* the receive interrupt and without transmission; main then starts the timer
\* and enters the loop
SciModuleInit ==
  /\ Running /\ Uart /\ pc = "sci_init"
  /\ ssr' = [ssr EXCEPT !.per = 0, !.fer = 0, !.orer = 0]
  /\ scr' = [scr EXCEPT !.rie = 1, !.tie = 0, !.teie = 0, !.re = 1, !.te = 0]
  /\ pc' = "poll"
  /\ UNCHANGED <<load, queueVars, ir, timerVars, msg, scrR, rgr, halted,
                 reported, ledVars, errs, scen>>

\* a poll whose read and reset are two steps that a handler can come between
MainPollTorn ==
  /\ Running /\ Uart /\ pc \in {"poll", "poll_clear"}
  /\ IF pc = "poll"
     THEN /\ tick' = Polled(tick, flag)
          /\ pc' = IF flag THEN "poll_clear" ELSE "poll"
          /\ UNCHANGED flag
     ELSE /\ flag' = FALSE
          /\ pc' = "tsn"
          /\ UNCHANGED tick
  /\ UNCHANGED <<load, queueVars, scr, ssr, ir, tcfpo, ovfs, msg, scrR, rgr,
                 halted, reported, ledVars, errs, scen>>

\* loop { let flag = ...replace(false); if flag {
MainPoll ==
  /\ Running /\ Uart /\ pc = "poll"
  /\ LET r == PollAndClear(flag)
     IN /\ flag' = r.flag
        /\ tick' = Polled(tick, r.ret)
        /\ pc' = IF r.ret THEN "tsn" ELSE "poll"
  /\ UNCHANGED <<load, queueVars, scr, ssr, ir, tcfpo, ovfs, msg, scrR, rgr,
                 halted, reported, ledVars, errs, scen>>

\* read_tsn(), then format! into a String<20>; no send when it does not fit
MainTsn ==
  /\ Running /\ Uart /\ pc = "tsn"
  /\ \E t \in load.temps :
       IF Len(Format(t)) <= FMT_CAP
       THEN msg' = Format(t) /\ pc' = "grant"
       ELSE msg' = <<>> /\ pc' = "rx_read"
  /\ UNCHANGED <<load, queueVars, scr, ssr, ir, timerVars, scrR, rgr,
                 halted, reported, ledVars, errs, scen>>

\* uart_println: grant_exact(len + 2).unwrap() and the two copies
SendGrant ==
  /\ Running /\ Uart /\ pc = "grant"
  /\ LET g == GrantExact(txq, Len(msg) + 2)
     IN IF g.ok
        THEN /\ txq' = Fill(g.q, g.start, WithCrLf(msg))
             /\ pc' = "commit"
             /\ UNCHANGED halted
        ELSE /\ halted' = "uart_println"
             /\ UNCHANGED <<txq, pc>>
  /\ scen' = IF scr.tie = 0 /\ scr.teie = 0 /\ Count(txq) = 0
                /\ ~ir[TXI] /\ ~ir[TEI]
             THEN [on |-> TRUE, n |-> Len(msg) + 2, txi |-> 0, tei |-> 0]
             ELSE NoScen
  /\ UNCHANGED <<load, rxq, rdr, tdr, rxWire, rxPushed, rxSeen, txPushed, scr,
                 ssr, ir, timerVars, msg, scrR, rgr, reported, ledVars, errs>>

\* uart_println: wgrant.commit(len + 2)
SendCommit ==
  /\ Running /\ Uart /\ pc = "commit"
  /\ txq' = Commit(txq, Len(msg) + 2, Len(msg) + 2)
  /\ txPushed' = txPushed \o WithCrLf(msg)
  /\ pc' = "scr_read"
  /\ UNCHANGED <<load, rxq, rdr, tdr, rxWire, rxPushed, rxSeen, scr, ssr, ir,
                 timerVars, msg, scrR, rgr, halted, reported, ledVars, errs, scen>>

\* uart_println: the read of scr().modify
SendScrRead ==
  /\ Running /\ Uart /\ pc = "scr_read"
  /\ scrR' = scr
  /\ pc' = "scr_write"
  /\ UNCHANGED <<load, queueVars, scr, ssr, ir, timerVars, msg, rgr, halted,
                 reported, ledVars, errs, scen>>

\* uart_println: the write-back of scr().modify
SendScrWrite ==
  /\ Running /\ Uart /\ pc = "scr_write"
  /\ scr' = ScrSend(scrR)
  /\ pc' = "rx_read"
  /\ UNCHANGED <<load, queueVars, ssr, ir, timerVars, msg, scrR, rgr, halted,
                 reported, ledVars, errs, scen>>

\* if let Ok(rgr) = rxd_cons.read()
MainRxRead ==
  /\ Running /\ Uart /\ pc = "rx_read"
  /\ LET r == Read(rxq)
     IN /\ rxq' = r.q
        /\ IF r.ok
           THEN rgr' = [start |-> r.start, len |-> r.len] /\ pc' = "rx_release"
           ELSE rgr' = NoGrant /\ pc' = "poll"
  /\ UNCHANGED <<load, txq, rdr, tdr, rxWire, rxPushed, rxSeen, txPushed, scr,
                 ssr, ir, timerVars, msg, scrR, halted, reported, ledVars, errs,
                 scen>>

\* a drain step that reports its grant and frees everything committed so far
MainRxReleaseAll ==
  /\ Running /\ Uart /\ pc = "rx_release"
  /\ LET bytes == Slice(rxq, rgr.start, rgr.len)
     IN IF TextLen(bytes) <= QUEUE_SIZE
        THEN /\ rxSeen' = rxSeen \o bytes
             /\ rxq' = [rxq EXCEPT !.read = rxq.write, !.rip = FALSE]
             /\ rgr' = NoGrant
             /\ pc' = "poll"
             /\ UNCHANGED halted
        ELSE /\ halted' = "collect"
             /\ UNCHANGED <<rxSeen, rxq, rgr, pc>>
  /\ UNCHANGED <<load, txq, rdr, tdr, rxWire, rxPushed, txPushed, scr, ssr, ir,
                 timerVars, msg, scrR, reported, ledVars, errs, scen>>

\* collect the bytes into a String<64> (push().unwrap() panics when the text
\* does not fit), log it, rgr.release(len)
MainRxRelease ==
  /\ Running /\ Uart /\ pc = "rx_release"
  /\ LET bytes == Slice(rxq, rgr.start, rgr.len)
     IN IF TextLen(bytes) <= QUEUE_SIZE
        THEN /\ rxSeen' = rxSeen \o bytes
             /\ rxq' = Release(rxq, rgr.len, rgr.len)
             /\ rgr' = NoGrant
             /\ pc' = "poll"
             /\ UNCHANGED halted
        ELSE /\ halted' = "collect"
             /\ UNCHANGED <<rxSeen, rxq, rgr, pc>>
  /\ UNCHANGED <<load, txq, rdr, tdr, rxWire, rxPushed, txPushed, scr, ssr, ir,
                 timerVars, msg, scrR, reported, ledVars, errs, scen>>

\* ------------------------------------------------------ gpt_timer main loop
RAINBOW_TABLE ==
  << [r |-> 128, g |-> 0, b |-> 0], [r |-> 128, g |-> 82, b |-> 0],
     [r |-> 128, g |-> 128, b |-> 0], [r |-> 0, g |-> 128, b |-> 0],
     [r |-> 0, g |-> 128, b |-> 128], [r |-> 0, g |-> 0, b |-> 128],
     [r |-> 128, g |-> 0, b |-> 128] >>

\* 8-bit channel values the LED encoder is applied to on its own
ChannelValues == {0, 1, 82, 128, 255}

Colours == { [r |-> x, g |-> y, b |-> z] : x, y, z \in ChannelValues }

\* grb with the channels packed in the order r, g, b
RgbBit(v, bit_digit) ==
  ((v.r * 65536 + v.g * 256 + v.b) \div (2 ^ bit_digit)) % 2

\* bit bit_digit of grb = value.g << 16 | value.r << 8 | value.b
GrbBit(v, bit_digit) ==
  ((v.g * 65536 + v.r * 256 + v.b) \div (2 ^ bit_digit)) % 2

\* a reset that returns without having held the line low
Ws2812bResetNoHold ==
  /\ podr' = 0
  /\ UNCHANGED strip

\* ws2812b_reset: the line driven low and held for the latch time
Ws2812bReset ==
  /\ podr' = 0
  /\ strip' = [strip EXCEPT !.latched = TRUE]

\* a pulse whose high phase is one nop for either symbol
Ws2812bPulseSameHigh ==
  LET bit_digit == 23 - Len(pulses)
      f == GrbBit(value, bit_digit)
  IN /\ pulses' = Append(pulses, [bit |-> f, levels |-> <<1, 0>>,
                                  high |-> 1, low |-> 3])
     /\ podr' = 0
     /\ strip' = [latched |-> FALSE, written |-> TRUE]

\* ws2812b_write: one pass of the loop over bit_digit (line high, one nop for
\* a 0 or three for a 1, line low, three nops); levels are the levels written
\* to the line, high and low the nops that follow each
Ws2812bPulse ==
  LET bit_digit == 23 - Len(pulses)
      f == GrbBit(value, bit_digit)
  IN /\ pulses' = Append(pulses, [bit |-> f, levels |-> <<1, 0>>,
                                  high |-> IF f = 0 THEN 1 ELSE 3, low |-> 3])
     /\ podr' = 0
     /\ strip' = [latched |-> FALSE, written |-> TRUE]

\* gpt_timer main: ws2812b_reset before the loop (the timer is running)
GptReset ==
  /\ Running /\ Gpt /\ pc = "led_reset"
  /\ Ws2812bReset
  /\ pc' = "poll"
  /\ UNCHANGED <<load, queueVars, scr, ssr, ir, timerVars, msg, scrR, rgr,
                 halted, reported, counter, pulses, value, errs, scen>>

\* loop { if FLAG.swap(false) { ws2812b_write(.., RAINBOW_TABLE[counter])
GptPoll ==
  /\ Running /\ Gpt /\ pc = "poll"
  /\ LET r == Swap(flag)
     IN /\ flag' = r.flag
        /\ tick' = Polled(tick, r.ret)
        /\ pc' = IF r.ret THEN "led" ELSE "poll"
        /\ pulses' = IF r.ret THEN <<>> ELSE pulses
        /\ value' = IF r.ret THEN RAINBOW_TABLE[counter + 1] ELSE value
  /\ UNCHANGED <<load, queueVars, scr, ssr, ir, tcfpo, ovfs, msg, scrR, rgr,
                 halted, reported, counter, podr, strip, errs, scen>>

\* a frame after which the palette index moves on by two
GptLedPulseSkips ==
  /\ Running /\ Gpt /\ pc = "led"
  /\ Ws2812bPulse
  /\ IF Len(pulses) = 23
     THEN counter' = (counter + 2) % PALETTE_LEN /\ pc' = "poll"
     ELSE UNCHANGED <<counter, pc>>
  /\ UNCHANGED <<load, queueVars, scr, ssr, ir, timerVars, msg, scrR, rgr,
                 halted, reported, value, errs, scen>>

\* one pulse of ws2812b_write; after the last one
\* counter = (counter + 1) % RAINBOW_TABLE.len()
GptLedPulse ==
  /\ Running /\ Gpt /\ pc = "led"
  /\ Ws2812bPulse
  /\ IF Len(pulses) = 23
     THEN counter' = (counter + 1) % PALETTE_LEN /\ pc' = "poll"
     ELSE UNCHANGED <<counter, pc>>
  /\ UNCHANGED <<load, queueVars, scr, ssr, ir, timerVars, msg, scrR, rgr,
                 halted, reported, value, errs, scen>>

\* ------------------------------------------------------------ pac main loop
\* for color in sequences { ws2812b_reset(..); (sequences holds the colours of
\* RAINBOW_TABLE in the same order)
PacReset ==
  /\ Running /\ Pac /\ pc = "led_reset"
  /\ Ws2812bReset
  /\ value' = RAINBOW_TABLE[counter + 1]
  /\ pulses' = <<>>
  /\ pc' = "led"
  /\ UNCHANGED <<load, queueVars, scr, ssr, ir, timerVars, msg, scrR, rgr,
                 halted, reported, counter, errs, scen>>

\* ws2812b_write(.., color), one pulse
PacLedPulse ==
  /\ Running /\ Pac /\ pc = "led"
  /\ Ws2812bPulse
  /\ pc' = IF Len(pulses) = 23 THEN "delay" ELSE "led"
  /\ UNCHANGED <<load, queueVars, scr, ssr, ir, timerVars, msg, scrR, rgr,
                 halted, reported, counter, value, errs, scen>>

\* the nop loop after the frame, then the next colour (the outer loop starts
\* the sequence again after the last one)
PacDelay ==
  /\ Running /\ Pac /\ pc = "delay"
  /\ counter' = (counter + 1) % PALETTE_LEN
  /\ pc' = "led_reset"
  /\ UNCHANGED <<load, queueVars, scr, ssr, ir, timerVars, msg, scrR, rgr,
                 halted, reported, pulses, podr, value, strip, errs, scen>>

\* -------------------------------------------------------------------- spec
Next ==
  \/ TimerOverflow \/ RxArrive \/ TxiRaise \/ TeiRaise \/ LineError
  \/ UartIEL10 \/ IEL6 \/ IEL7 \/ IEL8 \/ IEL9
  \/ MainPoll \/ MainTsn \/ SendGrant \/ SendCommit \/ SendScrRead
  \/ SendScrWrite \/ MainRxRead \/ MainRxRelease
  \/ SciModuleInit
  \/ GptIEL10 \/ GptReset \/ GptPoll \/ GptLedPulse
  \/ PacReset \/ PacLedPulse \/ PacDelay

Spec == Init /\ [][Next]_vars

\* ----------------------------------------------- the LED encoder on its own
\* ws2812b_write applied to one colour out of Colours; nothing else runs.
EncodeLoad ==
  [prog |-> "encode", rx |-> 0, ovf |-> 0, err |-> 0,
   temps |-> {}, duplex |-> TRUE, book |-> FALSE, pre |-> 0]

InitEncode ==
  /\ load = EncodeLoad
  /\ rxq = EmptyQueue /\ txq = EmptyQueue
  /\ scr = ScrReset /\ ssr = SsrClear
  /\ rdr = 0 /\ tdr = <<>>
  /\ ir = [n \in IELS |-> FALSE]
  /\ tcfpo = FALSE /\ flag = FALSE
  /\ pc = "led" /\ msg = <<>> /\ scrR = ScrInit /\ rgr = NoGrant
  /\ halted = "no" /\ reported = <<>>
  /\ counter = 0 /\ pulses = <<>> /\ podr = 0
  /\ value \in Colours /\ strip = [latched |-> TRUE, written |-> FALSE]
  /\ rxWire = 0 /\ rxPushed = <<>>
  /\ rxSeen = <<>> /\ txPushed = <<>>
  /\ ovfs = 0 /\ errs = 0
  /\ tick = [sincePoll |-> 0, handled |-> 0, groups |-> 0, truePolls |-> 0,
             polled |-> FALSE, ret |-> FALSE, saw |-> 0]
  /\ scen = NoScen

\* one pulse of ws2812b_write(.., value); the call returns after 24
EncodePulse ==
  /\ load.prog = "encode" /\ pc = "led"
  /\ Ws2812bPulse
  /\ pc' = IF Len(pulses) = 23 THEN "done" ELSE "led"
  /\ UNCHANGED <<load, queueVars, scr, ssr, ir, timerVars, msg, scrR, rgr,
                 halted, reported, counter, value, errs, scen>>

NextEncode == EncodePulse

SpecEncode == InitEncode /\ [][NextEncode]_vars

\* ------------------------------------------- the transmit path with progress
\* A uart run with LiveTicks timer overflows and a silent receive line, in
\* which the hardware raises every event whose condition holds, every pending
\* interrupt is taken and the main loop keeps running.
LiveLoad ==
  [prog |-> "uart", rx |-> 0, ovf |-> LiveTicks, err |-> 0,
   temps |-> {235000}, duplex |-> TRUE, book |-> FALSE, pre |-> 0]

InitLive ==
  /\ load = LiveLoad
  /\ rxq = EmptyQueue /\ txq = EmptyQueue
  /\ scr = ScrReset /\ ssr = SsrClear
  /\ rdr = 0 /\ tdr = <<>>
  /\ ir = [n \in IELS |-> FALSE]
  /\ tcfpo = FALSE /\ flag = FALSE
  /\ pc = StartPc(LiveLoad) /\ msg = <<>> /\ scrR = ScrInit /\ rgr = NoGrant
  /\ halted = "no" /\ reported = <<>>
  /\ counter = 0 /\ pulses = <<>> /\ podr = 0
  /\ value = Black /\ strip = [latched |-> FALSE, written |-> FALSE]
  /\ rxWire = 0 /\ rxPushed = <<>>
  /\ rxSeen = <<>> /\ txPushed = <<>>
  /\ ovfs = 0 /\ errs = 0
  /\ tick = [sincePoll |-> 0, handled |-> 0, groups |-> 0, truePolls |-> 0,
             polled |-> FALSE, ret |-> FALSE, saw |-> 0]
  /\ scen = NoScen

NextLive ==
  \/ TimerOverflow \/ TxiRaise \/ TeiRaise
  \/ UartIEL10 \/ IEL7 \/ IEL8
  \/ SciModuleInit \/ MainPoll \/ MainTsn \/ SendGrant \/ SendCommit
  \/ SendScrRead \/ SendScrWrite \/ MainRxRead

FairLive ==
  /\ WF_vars(TimerOverflow) /\ WF_vars(TxiRaise) /\ WF_vars(TeiRaise)
  /\ WF_vars(UartIEL10) /\ WF_vars(IEL7) /\ WF_vars(IEL8)
  /\ WF_vars(SciModuleInit) /\ WF_vars(MainPoll) /\ WF_vars(MainTsn)
  /\ WF_vars(SendGrant) /\ WF_vars(SendCommit) /\ WF_vars(SendScrRead)
  /\ WF_vars(SendScrWrite) /\ WF_vars(MainRxRead)

SpecLive == InitLive /\ [][NextLive]_vars /\ FairLive

\* ------------------------------------------------ the drain step on its own
\* The drain step of a fired tick applied to an RX queue that holds n bytes,
\* 1 <= n <= QUEUE_SIZE, received since start-up with no drain in between:
\* the first k of them have the value hi (128 or above), the others the value
\* lo (below 128).  The tick's message has been sent and transmitted.
DrainLoad ==
  [prog |-> "uart", rx |-> QUEUE_SIZE, ovf |-> 1, err |-> 0,
   temps |-> {235000}, duplex |-> TRUE, book |-> FALSE, pre |-> 0]

\* byte values of the two UTF-8 length classes of (u as char), at their edges
LowBytes == {0, 127}
HighBytes == {128, 255}

\* the bytes on the receive line
DrainWire(n, k, lo, hi) == [i \in 1..n |-> IF i <= k THEN hi ELSE lo]

\* TXD_QUEUE after one message was sent and transmitted
SentQueue(m) ==
  LET g == GrantExact(EmptyQueue, Len(m))
      q == Commit(Fill(g.q, g.start, m), Len(m), Len(m))
  IN [q EXCEPT !.read = Len(m)]

InitDrain ==
  /\ load = DrainLoad
  /\ \E n \in 1..QUEUE_SIZE, k \in 0..QUEUE_SIZE, lo \in LowBytes, hi \in HighBytes :
       /\ k <= n
       /\ rxq = [EmptyQueue EXCEPT
                   !.write = n, !.reserve = n,
                   !.buf = [i \in 0..(QUEUE_SIZE - 1) |->
                              IF i < n THEN DrainWire(n, k, lo, hi)[i + 1] ELSE 0]]
       /\ rdr = DrainWire(n, k, lo, hi)[n]
       /\ rxWire = n /\ rxPushed = DrainWire(n, k, lo, hi)
  /\ txq = SentQueue(WithCrLf(Format(235000)))
  /\ tdr = WithCrLf(Format(235000)) /\ txPushed = WithCrLf(Format(235000))
  /\ scr = ScrInit /\ ssr = SsrClear
  /\ ir = [n \in IELS |-> FALSE]
  /\ tcfpo = FALSE /\ flag = FALSE
  /\ pc = "rx_read" /\ msg = Format(235000) /\ scrR = ScrInit /\ rgr = NoGrant
  /\ halted = "no" /\ reported = <<>>
  /\ counter = 0 /\ pulses = <<>> /\ podr = 0
  /\ value = Black /\ strip = [latched |-> FALSE, written |-> FALSE]
  /\ rxSeen = <<>>
  /\ ovfs = 1 /\ errs = 0
  /\ tick = [sincePoll |-> 0, handled |-> 0, groups |-> 0, truePolls |-> 0,
             polled |-> FALSE, ret |-> FALSE, saw |-> 0]
  /\ scen = NoScen

NextDrain == MainRxRead \/ MainRxRelease

SpecDrain == InitDrain /\ [][NextDrain]_vars

\* ------------------------------------------------------------------ claims
IsPrefix(a, b) == Len(a) <= Len(b) /\ SubSeq(b, 1, Len(a)) = a

\* C1: TIE and TEIE are never both set, in any state reachable through sends
\* interleaved with the four UART handlers.
C1_NeverBothTxInterrupts == ~(scr.tie = 1 /\ scr.teie = 1)

\* a handler ran between the read and the write-back of uart_println's
\* SCR update and changed the transmit interrupt enables
C1_Witness ==
  /\ pc = "scr_write"
  /\ scrR.teie = 1 /\ scr.teie = 0 /\ scr.tie = 0

\* C2 (as claimed): after a send from ReceiveOnly with an empty TX queue and
\* exactly N transmit-data-empty interrupts, N the number of bytes the send
\* enqueued, the transmission-complete interrupt is the enabled one, so that
\* one such interrupt can be taken and returns the driver to ReceiveOnly.
C2_AfterNTxi ==
  (scen.on /\ scen.txi = scen.n /\ scen.tei = 0) => scr.teie = 1

\* C2 (amended): the send is followed by N + 1 transmit-data-empty interrupts:
\* each of the first N writes one byte and leaves the driver in Transmitting,
\* the (N+1)-th finds the queue empty and switches to DrainingLastByte, and one
\* transmission-complete interrupt then returns the driver to ReceiveOnly with
\* the N bytes written to TDR.
C2_SendThenDrain ==
  scen.on =>
    /\ scen.txi <= scen.n + 1
    /\ (scen.txi \in 1..scen.n /\ scen.tei = 0) =>
         (DriverState(scr) = "Transmitting" /\ Count(txq) = scen.n - scen.txi)
    /\ (scen.txi = scen.n + 1 /\ scen.tei = 0) =>
         (DriverState(scr) = "DrainingLastByte" /\ Count(txq) = 0)
    /\ scen.tei = 1 =>
         /\ scen.txi = scen.n + 1
         /\ DriverState(scr) = "ReceiveOnly" /\ scr.te = 0
         /\ Count(txq) = 0
         /\ tdr = txPushed

C2_Witness == scen.on /\ scen.txi = scen.n + 1 /\ scen.tei = 1

\* C3: for both queues the bytes handed to the consumer are a prefix of the
\* bytes the producer committed (nothing invented, duplicated or reordered).
C3_Fifo == IsPrefix(rxSeen, rxPushed) /\ IsPrefix(tdr, txPushed)

\* more bytes than the capacity were committed to the TX ring, the transmit
\* handler has consumed past the wrap-around (its read index is behind the
\* number of bytes sent) and committed bytes are still waiting
C3_Witness ==
  /\ Len(txPushed) > QUEUE_SIZE
  /\ txq.read > 0
  /\ Len(tdr) > txq.read
  /\ Len(txPushed) > Len(tdr)

\* C4: each queue stores at most QUEUE_SIZE bytes (committed and not yet
\* released), and the count derived from its indices is that number.
C4_CountWithinCapacity ==
  /\ Count(rxq) = Len(rxPushed) - Len(rxSeen)
  /\ Count(txq) = Len(txPushed) - Len(tdr)
  /\ Len(rxPushed) - Len(rxSeen) <= QUEUE_SIZE
  /\ Len(txPushed) - Len(tdr) <= QUEUE_SIZE

C4_Witness == Count(rxq) = QUEUE_SIZE

\* C5: a receive interrupt taken while the RX queue is full drops the byte:
\* the queue is unchanged, the handler returns after clearing its pending
\* flag, nothing panics, and SCR is unchanged.
C5_RxFullDrops ==
  [][(IEL6 /\ Count(rxq) = QUEUE_SIZE)
       => (halted' = "no" /\ ~ir'[RXI] /\ rxq' = rxq /\ scr' = scr)]_vars

\* C6: a send into a TX queue with fewer free slots than the message needs
\* does not panic and goes on (to enqueue the part that fits and return).
C6_ShortSendNoPanic ==
  [][(SendGrant /\ QUEUE_SIZE - Count(txq) < Len(msg) + 2)
       => (halted' = "no" /\ pc' = "commit")]_vars

\* C7: a poll returns true exactly when at least one overflow was handled
\* since the previous poll (so any number of overflows gives one true, and a
\* poll right after a poll gives false).
C7_Coalescing ==
  (load.book /\ tick.polled) => (tick.ret = (tick.saw > 0))

C7_Witness == load.book /\ tick.polled /\ tick.ret /\ tick.saw >= 2

\* C8 (as claimed): once the main loop has polled after the last handled
\* overflow, the polls that returned true are as many as the overflows handled.
C8_OnePerOverflow ==
  (load.book /\ tick.sincePoll = 0) => tick.truePolls = tick.handled

\* C8 (amended): the polls that returned true are never more than the
\* overflows handled, and once the main loop has polled after the last handled
\* overflow they are as many as the groups of overflows handled between two
\* consecutive polls (overflows of one group are coalesced into one true).
C8_OnePerGroup ==
  load.book =>
    /\ tick.truePolls <= tick.handled
    /\ tick.sincePoll = 0 => tick.truePolls = tick.groups

C8_Witness ==
  load.book /\ tick.sincePoll = 0 /\ tick.groups >= 1 /\ tick.handled > tick.groups

\* C9: every run of the timer-overflow handler, in both programs, finds the
\* overflow status set, and leaves the TimerFlag set, the overflow status bit
\* clear and the interrupt controller's pending bit clear.
C9_HandlerClearsAll ==
  /\ []((Running /\ ir[OVF]) => tcfpo)
  /\ [][(UartIEL10 \/ GptIEL10) => (flag' /\ ~tcfpo' /\ ~ir'[OVF])]_vars

C9_Witness == Gpt /\ ovfs >= 2 /\ flag /\ ~tcfpo /\ ~ir[OVF]

\* C10: the error handler clears PER, FER and ORER and changes nothing else
\* of the driver: SCR (TIE, TEIE, TE, RIE, RE) and both queues stay as they are.
C10_ErrorHandlerFrame ==
  [][IEL9 => (/\ ssr' = SsrClear
              /\ scr' = scr
              /\ rxq' = rxq /\ txq' = txq
              /\ tdr' = tdr /\ rxSeen' = rxSeen)]_vars

\* the handler has run in DrainingLastByte
C10_Witness ==
  /\ reported # <<>>
  /\ reported[Len(reported)].state = "DrainingLastByte"
  /\ ssr = SsrClear

\* the main flow is inside uart_println
InSend == pc \in {"grant", "commit", "scr_read", "scr_write"}

\* C11: whenever the driver is in ReceiveOnly (both transmit interrupts
\* disabled: at start-up, or after the transmission-complete handler returned)
\* and the main flow is not inside a send call, the TX queue is empty and every
\* byte committed by earlier sends has been written to TDR.
C11_IdleMeansAllSent ==
  (Uart /\ DriverState(scr) = "ReceiveOnly" /\ ~InSend)
    => (Count(txq) = 0 /\ tdr = txPushed)

\* C12: a transmit-data-empty interrupt taken while the TX queue is non-empty
\* removes exactly one byte from the queue, writes exactly the oldest committed
\* byte not yet sent to TDR, and leaves TIE = 1, TEIE = 0 (Transmitting).
C12_TxiSendsOldest ==
  [][(IEL7 /\ Count(txq) > 0)
       => (/\ tdr' = Append(tdr, txPushed[Len(tdr) + 1])
           /\ Count(txq') = Count(txq) - 1
           /\ txPushed' = txPushed
           /\ DriverState(scr') = "Transmitting")]_vars

\* the handler has written a byte and more are waiting
C12_Witness ==
  /\ tdr # <<>> /\ Count(txq) > 0 /\ ~ir[TXI]
  /\ tdr = SubSeq(txPushed, 1, Len(tdr))
  /\ DriverState(scr) = "Transmitting"

\* C13: a transmit-data-empty interrupt taken while the TX queue is empty
\* writes nothing to TDR, clears TIE and sets TEIE (DrainingLastByte), leaves
\* TE as it is and leaves the TX queue empty.
C13_TxiOnEmptyDrains ==
  [][(IEL7 /\ Count(txq) = 0)
       => (/\ tdr' = tdr
           /\ Count(txq') = 0
           /\ scr'.tie = 0 /\ scr'.teie = 1 /\ scr'.te = scr.te)]_vars

\* every committed byte is out and the handler has switched to TEIE
C13_Witness ==
  /\ DriverState(scr) = "DrainingLastByte"
  /\ tdr # <<>> /\ tdr = txPushed /\ ~ir[TXI]

\* the last Len(msg) + 2 committed bytes are the message of this send with CR LF
MsgCommitted ==
  /\ Len(txPushed) >= Len(msg) + 2
  /\ SubSeq(txPushed, Len(txPushed) - Len(msg) - 1, Len(txPushed)) = WithCrLf(msg)

\* C14: a send call leaves SCR alone until its bytes are committed to the TX
\* queue; its SCR write comes after the commit and leaves TIE = 1, TEIE = 0,
\* TE = 1 (Transmitting), whichever driver state the send found or a handler
\* set meanwhile.
C14_CommitThenEnable ==
  [][/\ (SendGrant \/ SendCommit \/ SendScrRead) => scr' = scr
     /\ SendScrWrite => (/\ MsgCommitted
                         /\ DriverState(scr') = "Transmitting"
                         /\ scr'.te = 1)]_vars

\* a send that read SCR in DrainingLastByte has returned
C14_Witness ==
  /\ pc = "rx_read" /\ scrR.teie = 1 /\ scrR.tie = 0
  /\ MsgCommitted
  /\ DriverState(scr) = "Transmitting"

C16_ReceiveEndToEnd ==
  /\ IsPrefix(rxSeen, WireBytes(rxWire))
  /\ (Running /\ ~ir[RXI] /\ Count(rxq) = 0) => rxSeen = WireBytes(rxWire)

\* several bytes went from the line through the RX queue to the main loop
C16_Witness ==
  /\ Len(rxSeen) >= 2 /\ rxSeen = WireBytes(rxWire) /\ rxWire = load.rx
  /\ pc = "poll"

\* C17: every poll that returns true is followed by one send, which enqueues
\* exactly the formatted temperature followed by CR LF (Len(msg) + 2 bytes),
\* and every transmit-data-empty interrupt on a non-empty queue then writes the
\* next of those bytes, in the enqueued order, to TDR.
C17_TickSendsMessage ==
  [][/\ (MainPoll /\ flag) => pc' = "tsn"
     /\ MainTsn => (pc' = "grant" /\ \E t \in load.temps : msg' = Format(t))
     /\ SendGrant => (halted' = "no" /\ pc' = "commit")
     /\ SendCommit => (/\ txPushed' = txPushed \o msg \o CRLF
                       /\ Count(txq') = Count(txq) + Len(msg) + 2)
     /\ (IEL7 /\ Count(txq) > 0)
          => tdr' = Append(tdr, txPushed[Len(tdr) + 1])]_vars

\* the eight bits of a channel value, most significant first
ByteBits(x) == [i \in 1..8 |-> (x \div (2 ^ (8 - i))) % 2]

\* C18: the symbols ws2812b_write emits for a colour are, in order, the bits
\* of g, then r, then b, each most significant bit first, a 1 as the long high
\* pulse and a 0 as the short one, and there are never more than 24 of them.
C18_GrbMsbFirst ==
  /\ Len(pulses) <= 24
  /\ \A i \in 1..Len(pulses) :
       /\ pulses[i].bit
            = (ByteBits(value.g) \o ByteBits(value.r) \o ByteBits(value.b))[i]
       /\ pulses[i].high = (IF pulses[i].bit = 1 THEN 3 ELSE 1)

\* RGB(255, 0, 0) has been written: 0x00, 0xFF, 0x00
C18_Witness ==
  /\ load.prog = "encode"
  /\ value = [r |-> 255, g |-> 0, b |-> 0]
  /\ Len(pulses) = 24
  /\ [i \in 1..24 |-> pulses[i].bit]
       = <<0, 0, 0, 0, 0, 0, 0, 0, 1, 1, 1, 1, 1, 1, 1, 1, 0, 0, 0, 0, 0, 0, 0, 0>>

\* C19: in gpt_timer no interrupt handler runs between the first and the last
\* pulse of a ws2812b_write call.
C19_NoHandlerInFrame ==
  [][GptIEL10 => ~(pc = "led" /\ Len(pulses) \in 1..23)]_vars

\* C20: no pulse is emitted before the first ws2812b_reset has completed, and
\* the first pulse of the first frame starts from a line that a completed
\* reset left low, no pulse having been emitted since.
C20_ResetBeforeFirstFrame ==
  /\ []((Gpt \/ Pac) => (~strip.latched /\ ~strip.written
                           => pc = "led_reset" /\ pulses = <<>>))
  /\ [][((GptLedPulse \/ PacLedPulse) /\ ~strip.written)
          => (strip.latched /\ podr = 0 /\ pulses = <<>>)]_vars

\* gpt_timer has written its first frame, the reset came before it
C20_Witness ==
  /\ Gpt /\ strip.written /\ Len(pulses) = 24 /\ counter = 1 /\ pc = "poll"

\* C21: in gpt_timer the palette index stays in 0..6 and equals the number of
\* frames written modulo 7; the k-th poll that returns true starts exactly one
\* frame, with the palette entry at index (k - 1) mod 7, and a poll that
\* returns false starts none (frames started = polls that returned true).
C21_OneStepPerTick ==
  (Gpt /\ load.book) =>
    LET started == tick.truePolls
        written == IF pc = "led" THEN started - 1 ELSE started
    IN /\ counter \in 0..(PALETTE_LEN - 1)
       /\ counter = written % PALETTE_LEN
       /\ pc = "led" => started > 0
       /\ started > 0 =>
            /\ value = RAINBOW_TABLE[((started - 1) % PALETTE_LEN) + 1]
            /\ strip.written \/ pulses = <<>>
            /\ pc = "poll" => Len(pulses) = 24
       /\ started = 0 => (pulses = <<>> /\ ~strip.written)

\* the eighth frame has been written: the palette wrapped to its first colour
C21_Witness ==
  /\ Gpt /\ load.book /\ tick.truePolls = PALETTE_LEN + 1
  /\ pc = "poll" /\ counter = 1
  /\ value = RAINBOW_TABLE[1]

\* C22: the drain step of a fired tick takes every byte that is committed in
\* the RX queue when it starts (its read grant covers them all) and reports
\* and releases the whole grant, so that only bytes that arrived later remain.
C22_DrainTakesAll ==
  [][/\ MainRxRead => rgr'.len = Count(rxq)
     /\ (MainRxRelease /\ halted' = "no")
          => rxSeen' = rxSeen \o Slice(rxq, rgr.start, rgr.len)]_vars

\* C23: a send call always returns: the firmware never comes to a halt inside
\* uart_println, whatever the TX queue holds.
C23_SendReturns == InSend => Running

\* C24: the producer side of the RX queue is changed only by the receive
\* handler and its consumer side only by the main loop's drain; the producer
\* side of the TX queue only by uart_println and its consumer side only by
\* the transmit-data-empty handler; and none of them ever starts a grant while
\* a grant of the same side of the same queue is in progress.
C24_SingleProducerConsumer ==
  [][/\ ProducerSide(rxq') # ProducerSide(rxq) => IEL6
     /\ ConsumerSide(rxq') # ConsumerSide(rxq) => (MainRxRead \/ MainRxRelease)
     /\ ProducerSide(txq') # ProducerSide(txq) => (SendGrant \/ SendCommit)
     /\ ConsumerSide(txq') # ConsumerSide(txq) => IEL7
     /\ IEL6 => ~rxq.wip
     /\ SendGrant => ~txq.wip
     /\ IEL7 => ~txq.rip
     /\ MainRxRead => ~rxq.rip]_vars

\* the receive handler has pushed a byte while the main loop held its read
\* grant on the (not wrapped) RX queue
C24_Witness ==
  /\ pc = "rx_release" /\ rxq.rip
  /\ rxq.write >= rxq.read
  /\ Count(rxq) > rgr.len

\* C25: the TimerFlag is set exactly while an overflow has been handled that
\* no poll has returned yet, and every poll returns the flag's value and
\* leaves it clear in the same step: a flag set by the handler, wherever the
\* handler preempts the main loop, is returned as true by the next poll.
C25_NoTickLost ==
  /\ [](load.book => (flag <=> tick.sincePoll > 0))
  /\ [][(load.book /\ (MainPoll \/ GptPoll))
          => (tick'.ret = flag /\ ~flag' /\ tick'.sincePoll = 0)]_vars

\* the handler ran while the main loop was busy with an earlier tick, and its
\* flag is waiting for the next poll
C25_Witness ==
  /\ load.book /\ Uart /\ pc \in {"commit", "scr_write", "rx_read"}
  /\ flag /\ tick.sincePoll > 0 /\ tick.truePolls >= 1

\* C26: a ws2812b_write call emits exactly 24 pulses, each the line driven
\* high and then low; the high phase lasts 3 nops for a 1 and 1 nop for a 0,
\* the low phase 3 nops for both, and the line is low when the call returns.
C26_PulseShape ==
  /\ Len(pulses) <= 24
  /\ \A i \in 1..Len(pulses) :
       /\ pulses[i].levels = <<1, 0>>
       /\ pulses[i].bit = 1 => pulses[i].high = 3
       /\ pulses[i].bit = 0 => pulses[i].high = 1
       /\ pulses[i].low = 3
  /\ (pc # "led" /\ pulses # <<>>) => (Len(pulses) = 24 /\ podr = 0)

\* a call has returned after a frame that holds both symbols
C26_Witness ==
  /\ load.prog = "encode" /\ pc = "done"
  /\ Len(pulses) = 24 /\ podr = 0
  /\ \E i, j \in 1..24 : pulses[i].high = 3 /\ pulses[j].high = 1

\* C27: each UART handler that returns has cleared the pending flag of its
\* own source and left the flags of all other sources as they were (IEL7 in
\* both of its branches).
C27_OwnPendingFlagOnly ==
  [][/\ (IEL6 /\ halted' = "no") => ir' = [ir EXCEPT ![RXI] = FALSE]
     /\ IEL7 => ir' = [ir EXCEPT ![TXI] = FALSE]
     /\ IEL8 => ir' = [ir EXCEPT ![TEI] = FALSE]
     /\ IEL9 => ir' = [ir EXCEPT ![ERI] = FALSE]]_vars

\* the transmit-data-empty handler has written a byte of a message while the
\* transmission-complete source was pending, and that source is still pending
C27_Witness ==
  /\ ir[TEI] /\ ~ir[TXI]
  /\ DriverState(scr) = "Transmitting"
  /\ Count(txq) \in 1..11

C29_ScrUpdateRaceFree ==
  [][SendScrWrite =>
       /\ scr' = ScrSend(scr)
       /\ scr'.tie = 1 /\ scr'.teie = 0 /\ scr'.te = 1
       /\ scr'.rie = scr.rie /\ scr'.re = scr.re]_vars

\* the transmission-complete handler ran between the read and the write-back:
\* the value read has the transmitter on, the register has it off
C29_Witness ==
  /\ pc = "scr_write"
  /\ scrR.te = 1 /\ scrR.teie = 1
  /\ scr = ScrTei(scrR)
  /\ ~ir[TEI]

\* C30: after sci_module_init the receive interrupt enable and the receiver
\* enable are set in every state.
C30_ReceptionStaysOn ==
  (Uart /\ pc # "sci_init") => (scr.rie = 1 /\ scr.re = 1)

\* a message was sent to its end, the transmitter is off again, bytes were
\* received and drained, and reception is still on
C30_Witness ==
  /\ Uart /\ pc = "poll"
  /\ tdr # <<>> /\ tdr = txPushed
  /\ rxSeen # <<>>
  /\ scr = ScrInit

\* C31: outside the read-to-write window of a send's SCR update (handlers
\* update SCR in one step), after sci_module_init, TE is set exactly when TIE
\* or TEIE is set.
C31_TeIffTransmitting ==
  (Uart /\ pc \notin {"sci_init", "scr_write"}) =>
    (scr.te = 1 <=> (scr.tie = 1 \/ scr.teie = 1))

\* C32: the bytes committed to the RX queue are always the bytes the drains
\* have delivered followed by the bytes still pending, in order; a receive
\* interrupt during a drain (between read and release) leaves the drain's
\* grant and its bytes as they are and appends its byte to the pending ones; the
\* release frees exactly the bytes of the grant, which are the bytes the drain
\* delivers, and leaves the others pending; and every drain's grant starts at
\* the oldest pending byte.
C32_DrainRaceKeepsBytes ==
  /\ [](Uart => rxPushed = rxSeen \o Pending(rxq))
  /\ [][/\ (IEL6 /\ pc = "rx_release" /\ halted' = "no")
           => /\ rgr' = rgr
              /\ Slice(rxq', rgr.start, rgr.len) = Slice(rxq, rgr.start, rgr.len)
              /\ Pending(rxq') = Append(Pending(rxq), rdr)
        /\ (MainRxRelease /\ halted' = "no")
           => /\ rxSeen' = rxSeen \o Slice(rxq, rgr.start, rgr.len)
              /\ Slice(rxq, rgr.start, rgr.len) = SubSeq(Pending(rxq), 1, rgr.len)
              /\ Pending(rxq') = SubSeq(Pending(rxq), rgr.len + 1, Count(rxq))
        /\ (MainRxRead /\ pc' = "rx_release")
           => Slice(rxq', rgr'.start, rgr'.len) = SubSeq(Pending(rxq), 1, rgr'.len)]_vars

\* an earlier drain has delivered bytes, and the receive handler has pushed a
\* byte behind the grant the current drain holds
C32_Witness ==
  /\ pc = "rx_release"
  /\ rxSeen # <<>>
  /\ Len(rxPushed) > Len(rxSeen) + rgr.len
  /\ Count(rxq) = rgr.len + 1 /\ rxq.write = rgr.start + rgr.len + 1
  /\ Slice(rxq, rgr.start, rgr.len) # <<>>

\* C33: the drain step never panics: the text collected from the bytes of its
\* read grant fits the 64-byte buffer, whatever 1 to 64 bytes are pending.
C33_DrainNeverPanics ==
  /\ halted = "no"
  /\ pc = "rx_release" => TextLen(Slice(rxq, rgr.start, rgr.len)) <= QUEUE_SIZE

====
